---- MODULE Spec2Model ----
(***************************************************************************)
(* Model of the calculation engine of retirement_calculator.py: the class  *)
(* RetirementCalculator with its five methods.                             *)
(*                                                                         *)
(* Number representation.  The program computes in Python floats; the      *)
(* model computes in integers:                                             *)
(*   - rates are whole percents (0.05 is 5);                               *)
(*   - a growth multiplier (1+r)^n is a fixed-point number with FixedOne   *)
(*     standing for 1.0, rounded down after every multiplication;          *)
(*   - the breakdown and total of calculate_monthly_expenses are exact     *)
(*     rationals held in thirtieths of a currency unit (family_size/3*0.8  *)
(*     has denominator 30);                                                *)
(*   - projected expenses and the SIP are held in hundredths of a currency *)
(*     unit, rounded down;                                                 *)
(*   - the required corpus and the corpus of calculate_corpus_duration are *)
(*     held in whole units, rounded down after every multiplication.       *)
(* A Python exception is the result [kind |-> "error", error |-> <name>].  *)
(***************************************************************************)
EXTENDS Integers, Sequences, FiniteSets, TLC

VARIABLES city_costs, pc, op, args, corpus, years, result

vars == <<city_costs, pc, op, args, corpus, years, result>>

(* ----------------------------- bounds ---------------------------------- *)
MaxFamilySize == 5
MaxChildren == 2
MaxHorizon == 3
MaxCorpusK == 4
MaxMainHorizon == 5

(* fixed-point 1.0 of the growth multipliers *)
FixedOne == 100 * 100

(* ------------------------ reference data ------------------------------- *)
Tier1 == "Tier 1 (Mumbai, Delhi, Bangalore)"
Tier2 == "Tier 2 (Pune, Jaipur, Coimbatore)"
Tier3 == "Tier 3 (Small Cities/Towns)"

Categories ==
  {"rent", "groceries", "utilities", "transportation", "healthcare",
   "entertainment", "education_child", "miscellaneous"}

InitialCityCosts ==
  (Tier1 :> [rent |-> 45000, groceries |-> 15000, utilities |-> 4500,
             transportation |-> 8000, healthcare |-> 4000, entertainment |-> 8000,
             education_child |-> 20000, miscellaneous |-> 6000])
  @@
  (Tier2 :> [rent |-> 28000, groceries |-> 10000, utilities |-> 3000,
             transportation |-> 5000, healthcare |-> 2500, entertainment |-> 5000,
             education_child |-> 12000, miscellaneous |-> 4000])
  @@
  (Tier3 :> [rent |-> 18000, groceries |-> 7000, utilities |-> 2500,
             transportation |-> 3000, healthcare |-> 2000, entertainment |-> 3000,
             education_child |-> 8000, miscellaneous |-> 3000])

(* ---------------------------- helpers ---------------------------------- *)
Max(a, b) == IF a >= b THEN a ELSE b

RECURSIVE SumValues(_, _)
SumValues(f, keys) ==
  IF keys = {} THEN 0
  ELSE LET k == CHOOSE x \in keys : TRUE
       IN f[k] + SumValues(f, keys \ {k})

(* base ** n for base = num/den and n >= 0, as a fixed-point number *)
RECURSIVE PowFixed(_, _, _)
PowFixed(num, den, n) ==
  IF n = 0 THEN FixedOne
  ELSE (PowFixed(num, den, n - 1) * num) \div den

(* base ** n for any integer n; a zero base to a negative power raises *)
Power(num, den, n) ==
  IF n >= 0 THEN [kind |-> "ok", value |-> PowFixed(num, den, n)]
  ELSE IF num = 0 THEN [kind |-> "error", error |-> "ZeroDivisionError"]
  ELSE [kind |-> "ok", value |-> (FixedOne * FixedOne) \div PowFixed(num, den, 0 - n)]

(* ------------------- calculate_monthly_expenses ------------------------ *)
(* a lookup that falls back to the Tier 2 profile for a missing key *)
TierLookupWithDefault(cc, city_tier) ==
  IF city_tier \in DOMAIN cc
  THEN [kind |-> "ok", value |-> cc[city_tier]]
  ELSE [kind |-> "ok", value |-> cc[Tier2]]

(* self.city_costs[city_tier]: a missing key raises KeyError *)
TierLookup(cc, city_tier) ==
  IF city_tier \in DOMAIN cc
  THEN [kind |-> "ok", value |-> cc[city_tier]]
  ELSE [kind |-> "error", error |-> "KeyError"]

(* if own_house: base_costs["rent"] = 0 *)
ZeroRent(base_costs, own_house) ==
  IF own_house THEN [base_costs EXCEPT !.rent = 0] ELSE base_costs

(* custom_expenses is None or a mapping; None and {} are both falsy and are *)
(* both the empty mapping here.  Only keys already in base_costs are taken. *)
ApplyCustom(base_costs, custom_expenses) ==
  IF DOMAIN custom_expenses # {}
  THEN [c \in DOMAIN base_costs |->
          IF c \in DOMAIN custom_expenses THEN custom_expenses[c] ELSE base_costs[c]]
  ELSE base_costs

(* the scaling threshold tested with >= instead of > *)
SizeFactorFromThree(family_size, category) ==
  IF family_size >= 3
  THEN LET multiplier == family_size * 10
       IN CASE category = "groceries" -> multiplier
            [] category = "utilities" -> (multiplier * 8) \div 10
            [] category = "miscellaneous" -> (multiplier * 9) \div 10
            [] OTHER -> 30
  ELSE 30

(* the factor a category is multiplied by, in thirtieths (30 is 1.0) *)
SizeFactor(family_size, category) ==
  IF family_size > 3
  THEN LET multiplier == family_size * 10     \* family_size / 3
       IN CASE category = "groceries" -> multiplier
            [] category = "utilities" -> (multiplier * 8) \div 10
            [] category = "miscellaneous" -> (multiplier * 9) \div 10
            [] OTHER -> 30
  ELSE 30

(* amounts in whole units in, amounts in thirtieths out *)
ScaleForFamily(base_costs, family_size) ==
  [c \in DOMAIN base_costs |-> base_costs[c] * SizeFactor(family_size, c)]

(* base_costs["education_child"] *= children_count *)
EducationForChildren(base_costs, children_count) ==
  [base_costs EXCEPT !.education_child = @ * children_count]

(* a total that leaves out parental_cost *)
TotalMonthlyWithoutParental(base_costs, emi, parental_cost) ==
  SumValues(base_costs, DOMAIN base_costs) + emi * 30

(* sum(base_costs.values()) + emi + parental_cost, in thirtieths *)
TotalMonthly(base_costs, emi, parental_cost) ==
  SumValues(base_costs, DOMAIN base_costs) + emi * 30 + parental_cost * 30

(* the own_house test placed after the overrides instead of before them *)
FinalBaseCostsOwnHouseLast(profile, a) ==
  EducationForChildren(
    ScaleForFamily(ZeroRent(ApplyCustom(profile, a.custom_expenses), a.own_house),
                   a.family_size),
    a.children_count)

(* the final local base_costs of a call on an existing tier *)
FinalBaseCosts(profile, a) ==
  EducationForChildren(
    ScaleForFamily(ApplyCustom(ZeroRent(profile, a.own_house), a.custom_expenses),
                   a.family_size),
    a.children_count)

MonthlyExpenses(cc, a) ==
  LET look == TierLookup(cc, a.city_tier)
  IN IF look.kind = "error" THEN look
     ELSE LET base_costs == FinalBaseCosts(look.value, a)
          IN [kind |-> "ok",
              total |-> TotalMonthly(base_costs, a.emi, a.parental_cost),
              breakdown |-> base_costs,
              parental_emergency |-> a.parental_emergency]

(* base_costs bound to the stored profile itself (no .copy()): the writes  *)
(* of the call land in self.city_costs                                     *)
CityCostsAliased(cc, a) ==
  IF a.city_tier \in DOMAIN cc
  THEN [cc EXCEPT ![a.city_tier] = FinalBaseCosts(cc[a.city_tier], a)]
  ELSE cc

(* base_costs is a .copy() of the stored profile, so the writes to it never *)
(* reach self.city_costs                                                    *)
CityCostsAfterCall(cc, a) == cc

(* --------------------- project_future_expenses ------------------------- *)
(* current_monthly * share * mult, in hundredths of a unit *)
Bucket(current_monthly, sharePct, mult) ==
  (current_monthly * sharePct * mult) \div FixedOne

ProjectFutureExpenses(a) ==
  LET general_mult == Power(100 + a.general_inflation, 100, a.years_to_retirement)
      healthcare_mult == Power(100 + a.healthcare_inflation, 100, a.years_to_retirement)
      education_mult == Power(100 + a.education_inflation, 100, a.years_to_retirement)
  IN IF general_mult.kind = "error" THEN general_mult
     ELSE IF healthcare_mult.kind = "error" THEN healthcare_mult
     ELSE IF education_mult.kind = "error" THEN education_mult
     ELSE LET general_expenses == Bucket(a.current_monthly, 70, general_mult.value)
              healthcare_expenses == Bucket(a.current_monthly, 15, healthcare_mult.value)
              education_expenses == Bucket(a.current_monthly, 15, education_mult.value)
          IN [kind |-> "ok",
              general |-> general_expenses,
              healthcare |-> healthcare_expenses,
              education |-> education_expenses,
              total |-> general_expenses + healthcare_expenses + education_expenses]

(* ----------------------- calculate_corpus_needed ----------------------- *)
(* true division n / d rounded to a whole number; d is not zero *)
Quotient(n, d) == IF d > 0 THEN n \div d ELSE 0 - (n \div (0 - d))

(* monthly_expenses * 12 / withdrawal_rate, in whole units; the rate is in *)
(* percent.  Division by a zero rate raises ZeroDivisionError.             *)
CorpusNeeded(a) ==
  LET annual_expenses == a.monthly_expenses * 12
  IN IF a.withdrawal_rate = 0
     THEN [kind |-> "error", error |-> "ZeroDivisionError"]
     ELSE [kind |-> "ok",
           value |-> Quotient(annual_expenses * 100, a.withdrawal_rate)]

(* ----------------------- calculate_sip_required ------------------------ *)
(* the horizon guard tested with < instead of <= *)
SipRequiredStrictGuard(a) ==
  IF a.years_to_retirement < 0
  THEN [kind |-> "ok", value |-> a.target_corpus * 100]
  ELSE LET months == a.years_to_retirement * 12
           growth == PowFixed(1200 + a.expected_return, 1200, months)
           denominator == growth - FixedOne
       IN IF denominator = 0
          THEN [kind |-> "error", error |-> "ZeroDivisionError"]
          ELSE [kind |-> "ok",
                value |-> (a.target_corpus * a.expected_return * FixedOne)
                            \div (12 * denominator)]

(* the result is in hundredths of a unit; expected_return is in percent,   *)
(* so monthly_rate is expected_return / 1200                               *)
SipRequired(a) ==
  IF a.years_to_retirement <= 0
  THEN [kind |-> "ok", value |-> a.target_corpus * 100]
  ELSE LET months == a.years_to_retirement * 12
           growth == PowFixed(1200 + a.expected_return, 1200, months)
           denominator == growth - FixedOne
       IN IF denominator = 0
          THEN [kind |-> "error", error |-> "ZeroDivisionError"]
          ELSE [kind |-> "ok",
                value |-> (a.target_corpus * a.expected_return * FixedOne)
                            \div (12 * denominator)]

(* ---------------------- calculate_corpus_duration ---------------------- *)
YearCap == 50

(* the cap tested with <= instead of < *)
LoopConditionInclusive(c, y) == c > 0 /\ y <= YearCap

(* the corpus tested with >= instead of > *)
LoopConditionNonNegative(c, y) == c >= 0 /\ y < YearCap

(* while corpus > 0 and years < 50 *)
LoopCondition(c, y) == c > 0 /\ y < YearCap

(* the return subtracted instead of added *)
GrowCorpusSubtracting(c, investment_return) == c - (c * investment_return) \div 100

(* corpus_return = corpus * investment_return; corpus += corpus_return *)
GrowCorpus(c, investment_return) == c + (c * investment_return) \div 100

(* the smaller of the two amounts instead of the larger *)
WithdrawalSmaller(c, y, annual_expenses, withdrawal_rate) ==
  LET expense == (annual_expenses * PowFixed(107, 100, y)) \div FixedOne
      floor == (c * withdrawal_rate) \div 100
  IN IF expense <= floor THEN expense ELSE floor

(* max(annual_expenses * (1.07 ** years), corpus * withdrawal_rate) *)
Withdrawal(c, y, annual_expenses, withdrawal_rate) ==
  Max((annual_expenses * PowFixed(107, 100, y)) \div FixedOne,
      (c * withdrawal_rate) \div 100)

(* one pass through the loop body: the corpus after growth and withdrawal *)
LoopBody(c, y, a) ==
  LET grown == GrowCorpus(c, a.investment_return)
  IN grown - Withdrawal(grown, y, a.annual_expenses, a.withdrawal_rate)

(* the whole method as a function of its arguments *)
RECURSIVE YearsFrom(_, _, _)
YearsFrom(c, y, a) ==
  IF LoopCondition(c, y) THEN YearsFrom(LoopBody(c, y, a), y + 1, a) ELSE y

CorpusDuration(a) == YearsFrom(a.initial_corpus, 0, a)

(* ------------------------------ inputs --------------------------------- *)
UnknownTier == "Tier 4 (Villages)"
TierInputs == DOMAIN InitialCityCosts \cup {UnknownTier}

NoCustom == [c \in {} |-> 0]

CustomInputs ==
  { NoCustom,
    [rent |-> 30000],
    [groceries |-> 9000, utilities |-> 2000, miscellaneous |-> 1500],
    [education_child |-> 5000, pets |-> 700] }

ExpenseArgs ==
  [city_tier : TierInputs,
   family_size : 1..MaxFamilySize,
   children_count : 0..MaxChildren,
   own_house : BOOLEAN,
   custom_expenses : CustomInputs,
   emi : {0, 15000},
   parental_cost : {0, 8000},
   parental_emergency : {0, 2000000}]

RatePercents == {0, 7, 11}

ProjectArgs ==
  [current_monthly : {0, 100, 695},
   years_to_retirement : 0..MaxHorizon,
   general_inflation : RatePercents,
   healthcare_inflation : RatePercents,
   education_inflation : RatePercents]

CorpusNeededArgs ==
  [monthly_expenses : {0, 1000, 100000},
   withdrawal_rate : {-5, -1, 0, 3, 5, 8}]

SipArgs ==
  [target_corpus : {0, 1200, 12000},
   years_to_retirement : -1..MaxHorizon,
   expected_return : {0, 8, 10, 12}]

DurationArgs ==
  [initial_corpus : {k * 500 : k \in 0..MaxCorpusK},
   annual_expenses : {0, 30, 100, 400},
   withdrawal_rate : {0, 5, 8, 100},
   investment_return : {0, 6, 10, 20}]

(* ------------------------------- main ---------------------------------- *)
(* st.slider("Current Age", 25, 65, 35) *)
CurrentAges == 25..65

(* st.slider("Planned Retirement Age", 35, 70, 60) *)
RetirementAges == 35..70

(* what the user selects in the input column; every value is inside the    *)
(* range of its widget, the amounts are small ones                         *)
MainSelections ==
  [current_age : CurrentAges,
   retirement_age : RetirementAges,
   family_size : {3},
   children_count : {1},
   parental_monthly : {0},
   parental_emergency_fund : {0},
   city_tier : {Tier2},
   own_house : {FALSE},
   custom_rent : {5},
   monthly_emi : {0, 2},
   emi_years_remaining : {10},
   current_retirement_corpus : {1000},
   general_inflation : {5},
   healthcare_inflation : {8},
   education_inflation : {6},
   expected_return : {6},
   withdrawal_rate : {8}]

(* the dict main builds from the eight expense inputs; all but the rent    *)
(* are entered as 0                                                        *)
MainCustomExpenses(w) ==
  [rent |-> w.custom_rent, groceries |-> 0, utilities |-> 0, transportation |-> 0,
   healthcare |-> 0, entertainment |-> 0, education_child |-> 0, miscellaneous |-> 0]

(* current_retirement_corpus * ((1 + expected_return) ** years), whole units *)
FutureValue(amount, ratePct, n) ==
  LET mult == Power(100 + ratePct, 100, n)
  IN IF mult.kind = "error" THEN mult
     ELSE [kind |-> "ok", value |-> (amount * mult.value) \div FixedOne]

(* the calculation of main up to the three SIP figures; the record keeps   *)
(* the horizon each consumer was given.  An exception of a call ends main. *)
MainCalculation(cc, w) ==
  LET years_to_retirement == w.retirement_age - w.current_age
      emi_during_retirement ==
        IF w.emi_years_remaining > years_to_retirement THEN w.monthly_emi ELSE 0
      expenses ==
        MonthlyExpenses(cc, [city_tier |-> w.city_tier,
                             family_size |-> w.family_size,
                             children_count |-> w.children_count,
                             own_house |-> w.own_house,
                             custom_expenses |-> MainCustomExpenses(w),
                             emi |-> w.monthly_emi,
                             parental_cost |-> w.parental_monthly,
                             parental_emergency |-> w.parental_emergency_fund])
  IN IF expenses.kind = "error" THEN expenses
     ELSE
     LET monthly_expenses == expenses.total \div 30
         future_monthly_without_emi == monthly_expenses - w.monthly_emi + emi_during_retirement
         future_expenses ==
           ProjectFutureExpenses([current_monthly |-> future_monthly_without_emi,
                                  years_to_retirement |-> years_to_retirement,
                                  general_inflation |-> w.general_inflation,
                                  healthcare_inflation |-> w.healthcare_inflation,
                                  education_inflation |-> w.education_inflation])
     IN IF future_expenses.kind = "error" THEN future_expenses
        ELSE
        LET total_required_corpus ==
              CorpusNeeded([monthly_expenses |-> future_expenses.total \div 100,
                            withdrawal_rate |-> w.withdrawal_rate])
            future_value_current_corpus ==
              FutureValue(w.current_retirement_corpus, w.expected_return, years_to_retirement)
        IN IF total_required_corpus.kind = "error" THEN total_required_corpus
           ELSE IF future_value_current_corpus.kind = "error" THEN future_value_current_corpus
           ELSE
           LET remaining_corpus_needed ==
                 Max(total_required_corpus.value - future_value_current_corpus.value, 0)
               sip_conservative ==
                 SipRequired([target_corpus |-> remaining_corpus_needed,
                              years_to_retirement |-> years_to_retirement,
                              expected_return |-> 8])
               sip_moderate ==
                 SipRequired([target_corpus |-> remaining_corpus_needed,
                              years_to_retirement |-> years_to_retirement,
                              expected_return |-> 10])
               sip_aggressive ==
                 SipRequired([target_corpus |-> remaining_corpus_needed,
                              years_to_retirement |-> years_to_retirement,
                              expected_return |-> w.expected_return])
           IN IF sip_conservative.kind = "error" THEN sip_conservative
              ELSE IF sip_moderate.kind = "error" THEN sip_moderate
              ELSE IF sip_aggressive.kind = "error" THEN sip_aggressive
              ELSE [kind |-> "ok",
                    years_to_retirement |-> years_to_retirement,
                    project_horizon |-> years_to_retirement,
                    growth_horizon |-> years_to_retirement,
                    sip_horizon |-> years_to_retirement,
                    future_total |-> future_expenses.total,
                    total_required_corpus |-> total_required_corpus.value,
                    future_value_current_corpus |-> future_value_current_corpus.value,
                    remaining_corpus_needed |-> remaining_corpus_needed,
                    sip_conservative |-> sip_conservative.value,
                    sip_moderate |-> sip_moderate.value,
                    sip_aggressive |-> sip_aggressive.value]

NoArgs == [none |-> TRUE]
NoResult == [kind |-> "none"]

(* --------------------------- state machine ----------------------------- *)
(* after RetirementCalculator(): the profiles are stored, nothing called   *)
Init ==
  /\ city_costs = InitialCityCosts
  /\ pc = "idle"
  /\ op = "none"
  /\ args = NoArgs
  /\ corpus = 0
  /\ years = 0
  /\ result = NoResult

Ready == pc = "idle"

(* the caller binds the arguments of a call; the locals of the previous    *)
(* call are gone, those of the new one are not yet assigned                *)
Invoke(name, a) ==
  /\ Ready
  /\ pc' = "called"
  /\ op' = name
  /\ args' = a
  /\ result' = NoResult
  /\ corpus' = 0
  /\ years' = 0
  /\ UNCHANGED city_costs

InvokeMonthlyExpenses == \E a \in ExpenseArgs : Invoke("calculate_monthly_expenses", a)
InvokeProject == \E a \in ProjectArgs : Invoke("project_future_expenses", a)
InvokeCorpusNeeded == \E a \in CorpusNeededArgs : Invoke("calculate_corpus_needed", a)
InvokeSip == \E a \in SipArgs : Invoke("calculate_sip_required", a)
InvokeDuration == \E a \in DurationArgs : Invoke("calculate_corpus_duration", a)

Called(name) == pc = "called" /\ op = name

(* one run of the script: the selections of the input column are read;    *)
(* the runs explored are those whose horizon is at most MaxMainHorizon     *)
InvokeMain ==
  \E w \in MainSelections :
    /\ w.retirement_age - w.current_age <= MaxMainHorizon
    /\ Invoke("main", w)

(* the results column of main up to the SIP figures; what follows in main  *)
(* only reads and displays these values                                    *)
RunMain ==
  /\ Called("main")
  /\ result' = MainCalculation(city_costs, args)
  /\ pc' = "returned"
  /\ UNCHANGED <<city_costs, op, args, corpus, years>>

CalculateMonthlyExpenses ==
  /\ Called("calculate_monthly_expenses")
  /\ result' = MonthlyExpenses(city_costs, args)
  /\ city_costs' = CityCostsAfterCall(city_costs, args)
  /\ pc' = "returned"
  /\ UNCHANGED <<op, args, corpus, years>>

ProjectFuture ==
  /\ Called("project_future_expenses")
  /\ result' = ProjectFutureExpenses(args)
  /\ pc' = "returned"
  /\ UNCHANGED <<city_costs, op, args, corpus, years>>

CalculateCorpusNeeded ==
  /\ Called("calculate_corpus_needed")
  /\ result' = CorpusNeeded(args)
  /\ pc' = "returned"
  /\ UNCHANGED <<city_costs, op, args, corpus, years>>

CalculateSipRequired ==
  /\ Called("calculate_sip_required")
  /\ result' = SipRequired(args)
  /\ pc' = "returned"
  /\ UNCHANGED <<city_costs, op, args, corpus, years>>

(* corpus = initial_corpus; years = 0 *)
DurationEnter ==
  /\ Called("calculate_corpus_duration")
  /\ corpus' = args.initial_corpus
  /\ years' = 0
  /\ pc' = "loop"
  /\ UNCHANGED <<city_costs, op, args, result>>

(* one iteration of the while loop; the break on corpus <= 0 leads to the  *)
(* same exit as the loop condition                                         *)
DurationIterate ==
  /\ pc = "loop"
  /\ LoopCondition(corpus, years)
  /\ corpus' = LoopBody(corpus, years, args)
  /\ years' = years + 1
  /\ UNCHANGED <<city_costs, pc, op, args, result>>

(* return years *)
DurationReturn ==
  /\ pc = "loop"
  /\ ~LoopCondition(corpus, years)
  /\ result' = [kind |-> "ok", value |-> years]
  /\ pc' = "returned"
  /\ UNCHANGED <<city_costs, op, args, corpus, years>>

(* the caller takes the returned value (or the exception) and goes on; the *)
(* calculator object stays                                                 *)
Resume ==
  /\ pc = "returned"
  /\ pc' = "idle"
  /\ op' = "none"
  /\ args' = NoArgs
  /\ result' = NoResult
  /\ corpus' = 0
  /\ years' = 0
  /\ UNCHANGED city_costs

Next ==
  \/ InvokeMonthlyExpenses
  \/ InvokeProject
  \/ InvokeCorpusNeeded
  \/ InvokeSip
  \/ InvokeDuration
  \/ CalculateMonthlyExpenses
  \/ ProjectFuture
  \/ CalculateCorpusNeeded
  \/ CalculateSipRequired
  \/ DurationEnter
  \/ DurationIterate
  \/ DurationReturn
  \/ Resume
  \/ InvokeMain
  \/ RunMain

Spec == Init /\ [][Next]_vars

(* a started call runs to completion: the interpreter keeps executing it   *)
FairSpec ==
  /\ Spec
  /\ WF_vars(DurationEnter)
  /\ WF_vars(DurationIterate)
  /\ WF_vars(DurationReturn)

(* ------------------------------ claims --------------------------------- *)
InDuration == op = "calculate_corpus_duration"
DurationReturned == InDuration /\ pc = "returned"

(* C1: every call of calculate_corpus_duration returns, and what it returns *)
(* is an integer year count in 0..50; the loop runs no iteration once       *)
(* corpus <= 0 or the year count has reached 50, but returns the count.     *)
DurationTerminatesWithinCap ==
  /\ [](DurationReturned => result.kind = "ok" /\ result.value \in 0..50)
  /\ [][(pc = "loop" /\ (corpus <= 0 \/ years >= 50))
          => (pc' = "returned" /\ result' = [kind |-> "ok", value |-> years])]_vars
  /\ (Called("calculate_corpus_duration") ~> DurationReturned)

(* a call that never depletes (no withdrawal, no expenses, 20% return)      *)
(* has returned the cap                                                     *)
NeverDepletingReturnsCap ==
  /\ DurationReturned
  /\ args.initial_corpus > 0
  /\ args.withdrawal_rate = 0
  /\ args.annual_expenses = 0
  /\ args.investment_return = 20
  /\ corpus > args.initial_corpus
  /\ result = [kind |-> "ok", value |-> 50]

InSip == op = "calculate_sip_required"
InCorpusNeeded == op = "calculate_corpus_needed"
InExpenses == op = "calculate_monthly_expenses"
InProject == op = "project_future_expenses"
ExpensesReturnedOk == InExpenses /\ pc = "returned" /\ result.kind = "ok"

(* C2: calculate_sip_required with a positive horizon and an expected      *)
(* return of exactly 0 returns target_corpus / months and does not raise.  *)
SipZeroReturnIsLimit ==
  (InSip /\ pc = "returned" /\ args.years_to_retirement > 0 /\ args.expected_return = 0)
    => /\ result.kind = "ok"
       /\ result.value = (args.target_corpus * 100) \div (args.years_to_retirement * 12)

(* C3: calculate_corpus_needed ends in an error for every withdrawal rate  *)
(* <= 0 and returns monthly_expenses * 12 / withdrawal_rate for a positive *)
(* rate.                                                                   *)
CorpusNeededRejectsNonPositiveRate ==
  (InCorpusNeeded /\ pc = "returned")
    => IF args.withdrawal_rate <= 0
       THEN result.kind = "error"
       ELSE /\ result.kind = "ok"
            /\ result.value = (args.monthly_expenses * 12 * 100) \div args.withdrawal_rate

(* C4: calculate_monthly_expenses called with a key that is not a stored   *)
(* tier ends in an error: no total, no breakdown, no default profile, and  *)
(* the stored profiles are as defined.                                     *)
UnknownTierIsError ==
  (InExpenses /\ pc = "returned" /\ args.city_tier \notin {Tier1, Tier2, Tier3})
    => /\ result = [kind |-> "error", error |-> "KeyError"]
       /\ city_costs = InitialCityCosts

UnknownTierCallReturned ==
  /\ InExpenses
  /\ pc = "returned"
  /\ args.city_tier = UnknownTier
  /\ result.kind = "error"

(* C5: the returned total is the sum of the returned breakdown plus emi    *)
(* plus parental_cost (thirtieths); the breakdown has exactly the eight    *)
(* categories; parental_emergency comes back unchanged and is not in the   *)
(* total.                                                                  *)
TotalIsBreakdownPlusExtras ==
  ExpensesReturnedOk
    => LET b == result.breakdown
       IN /\ DOMAIN b = Categories
          /\ result.total =
               b.rent + b.groceries + b.utilities + b.transportation
               + b.healthcare + b.entertainment + b.education_child
               + b.miscellaneous + 30 * args.emi + 30 * args.parental_cost
          /\ result.parental_emergency = args.parental_emergency

TotalWithAllExtrasReturned ==
  /\ ExpensesReturnedOk
  /\ args.emi > 0
  /\ args.parental_cost > 0
  /\ args.parental_emergency > 0
  /\ result.total > 30 * (args.emi + args.parental_cost)

(* C6: no step changes the stored profiles, the body of                    *)
(* calculate_monthly_expenses leaves the caller's arguments (the overrides *)
(* mapping among them) as they were, and what it returns is what the       *)
(* profiles as first defined give for the same arguments.                  *)
ProfilesNeverMutated ==
  [][/\ city_costs' = InitialCityCosts
     /\ Called("calculate_monthly_expenses")
          => /\ args' = args
             /\ result' = MonthlyExpenses(InitialCityCosts, args)]_vars

AdjustedBreakdownReturned ==
  /\ ExpensesReturnedOk
  /\ args.own_house
  /\ args.family_size > 3
  /\ DOMAIN args.custom_expenses # {}
  /\ result.breakdown # [c \in Categories |-> 30 * InitialCityCosts[args.city_tier][c]]
  /\ city_costs = InitialCityCosts

(* C7: for family_size <= 3 groceries, utilities and miscellaneous keep    *)
(* their amounts; for family_size > 3 groceries is times size/3, utilities *)
(* times size/3*0.8 and miscellaneous times size/3*0.9; rent,              *)
(* transportation, healthcare and entertainment are never scaled.  Tier 2, *)
(* size 3, 1 child, renting, no overrides, no emi, no parental cost totals *)
(* 69500.  (breakdown and total in thirtieths)                             *)
HouseholdScaling ==
  ExpensesReturnedOk
    => LET pre == ApplyCustom(ZeroRent(InitialCityCosts[args.city_tier], args.own_house),
                              args.custom_expenses)
           b == result.breakdown
           n == args.family_size
       IN /\ n <= 3 => /\ b.groceries = 30 * pre.groceries
                       /\ b.utilities = 30 * pre.utilities
                       /\ b.miscellaneous = 30 * pre.miscellaneous
          /\ n > 3 => /\ 3 * b.groceries = 30 * n * pre.groceries
                      /\ 30 * b.utilities = 30 * 8 * n * pre.utilities
                      /\ 30 * b.miscellaneous = 30 * 9 * n * pre.miscellaneous
          /\ b.rent = 30 * pre.rent
          /\ b.transportation = 30 * pre.transportation
          /\ b.healthcare = 30 * pre.healthcare
          /\ b.entertainment = 30 * pre.entertainment
          /\ (/\ args.city_tier = Tier2 /\ n = 3 /\ args.children_count = 1
              /\ ~args.own_house /\ args.custom_expenses = NoCustom
              /\ args.emi = 0 /\ args.parental_cost = 0)
               => result.total = 30 * 69500

LargeHouseholdScaled ==
  /\ ExpensesReturnedOk
  /\ args.family_size = 4
  /\ args.city_tier = Tier2
  /\ args.custom_expenses = NoCustom
  /\ result.breakdown.groceries = 400000
  /\ result.breakdown.utilities = 96000
  /\ result.breakdown.miscellaneous = 144000

(* C8: with a horizon of 0 years project_future_expenses returns 70%, 15%  *)
(* and 15% of current_monthly (hundredths) whatever the three rates are,   *)
(* with total their sum, and calculate_sip_required returns exactly the    *)
(* target corpus whatever the expected return is, 0 included.              *)
ZeroHorizonNoGrowth ==
  /\ (InProject /\ pc = "returned" /\ args.years_to_retirement = 0)
       => /\ result.kind = "ok"
          /\ result.general = 70 * args.current_monthly
          /\ result.healthcare = 15 * args.current_monthly
          /\ result.education = 15 * args.current_monthly
          /\ result.total = result.general + result.healthcare + result.education
  /\ (InSip /\ pc = "returned" /\ args.years_to_retirement = 0)
       => result = [kind |-> "ok", value |-> 100 * args.target_corpus]

ZeroHorizonProjectionReturned ==
  /\ InProject
  /\ pc = "returned"
  /\ args.years_to_retirement = 0
  /\ args.current_monthly = 695
  /\ args.general_inflation = 7
  /\ args.healthcare_inflation = 11
  /\ args.education_inflation = 0
  /\ result.total = 69500

(* C9: with the other arguments fixed, a larger initial_corpus never gives *)
(* a smaller year count, a larger investment_return never gives a smaller  *)
(* year count, and a larger annual_expenses never gives a larger year      *)
(* count (arguments non-negative).                                         *)
DurationMonotone ==
  DurationReturned
    => /\ \A c2 \in {a.initial_corpus : a \in DurationArgs} :
            c2 >= args.initial_corpus
              => CorpusDuration([args EXCEPT !.initial_corpus = c2]) >= result.value
       /\ \A r2 \in {a.investment_return : a \in DurationArgs} :
            r2 >= args.investment_return
              => CorpusDuration([args EXCEPT !.investment_return = r2]) >= result.value
       /\ \A e2 \in {a.annual_expenses : a \in DurationArgs} :
            e2 >= args.annual_expenses
              => CorpusDuration([args EXCEPT !.annual_expenses = e2]) <= result.value

(* a returned count strictly inside 0..50 that each of the three arguments *)
(* can strictly move                                                       *)
DurationStrictlyMoved ==
  /\ DurationReturned
  /\ result.value > 1
  /\ result.value < 50
  /\ \E a \in DurationArgs :
       /\ a = [args EXCEPT !.initial_corpus = a.initial_corpus]
       /\ a.initial_corpus > args.initial_corpus
       /\ CorpusDuration(a) > result.value
  /\ \E a \in DurationArgs :
       /\ a = [args EXCEPT !.investment_return = a.investment_return]
       /\ a.investment_return > args.investment_return
       /\ CorpusDuration(a) > result.value
  /\ \E a \in DurationArgs :
       /\ a = [args EXCEPT !.annual_expenses = a.annual_expenses]
       /\ a.annual_expenses > args.annual_expenses
       /\ CorpusDuration(a) < result.value

(* C10: a call with initial_corpus = 0 runs no loop iteration (the year    *)
(* count and the corpus stay 0) and returns 0, whatever the expenses, the  *)
(* withdrawal rate and the investment return are.                          *)
ZeroCorpusReturnsZero ==
  (InDuration /\ pc \in {"loop", "returned"} /\ args.initial_corpus = 0)
    => /\ years = 0
       /\ corpus = 0
       /\ pc = "returned" => result = [kind |-> "ok", value |-> 0]

ZeroCorpusCallReturned ==
  /\ DurationReturned
  /\ args.initial_corpus = 0
  /\ args.annual_expenses > 0
  /\ args.withdrawal_rate > 0
  /\ args.investment_return > 0
  /\ result.value = 0

(* the expense growth rates (percent) a caller of the simulator may have in *)
(* mind; the method has no parameter for one                                *)
ExpenseGrowthRates == {0, 5, 7, 10}

(* a step that is one iteration of the simulation loop *)
IterationStep == pc = "loop" /\ pc' = "loop" /\ years' = years + 1

(* the corpus after the growth of the current iteration *)
PostGrowth == corpus + (corpus * args.investment_return) \div 100

(* the expense of year index y grown at g percent a year *)
GrownExpense(g, y) == (args.annual_expenses * PowFixed(100 + g, 100, y)) \div FixedOne

(* the policy floor of the current iteration *)
PolicyFloor == (PostGrowth * args.withdrawal_rate) \div 100

(* C11 as stated: in every iteration the amount withdrawn is the larger of  *)
(* annual_expenses * (1 + g)^years and the post-growth corpus times the     *)
(* withdrawal rate, for the expense growth rate g the caller supplies       *)
(* (whichever of ExpenseGrowthRates that is).                               *)
WithdrawalUsesCallerGrowthRate ==
  [][IterationStep
       => \A g \in ExpenseGrowthRates :
            PostGrowth - corpus' = Max(GrownExpense(g, years), PolicyFloor)]_vars

(* C11 amended: in every iteration growth is applied first, the amount      *)
(* withdrawn is the larger of annual_expenses * 1.07^years (the fixed 7%,   *)
(* years starting at 0) and the post-growth corpus times the withdrawal     *)
(* rate, it is subtracted and the year counter goes up by one; so the       *)
(* amount withdrawn is never below the policy floor and never below the     *)
(* expense grown at 7%.                                                     *)
WithdrawalUsesFixedSevenPercent ==
  [][IterationStep
       => LET withdrawn == PostGrowth - corpus'
          IN /\ withdrawn = Max(GrownExpense(7, years), PolicyFloor)
             /\ withdrawn >= PolicyFloor
             /\ withdrawn >= GrownExpense(7, years)
             /\ UNCHANGED args]_vars

(* the simulation is past its second year, still running, and the grown    *)
(* expense (no longer the year-0 amount) is above the policy floor, while  *)
(* the first year's withdrawal was the policy floor                        *)
ExpenseOvertakesFloor ==
  /\ InDuration
  /\ pc = "loop"
  /\ years >= 2
  /\ corpus > 0
  /\ args.annual_expenses > 0
  /\ GrownExpense(7, years) > args.annual_expenses
  /\ GrownExpense(7, years) > PolicyFloor
  /\ ((args.initial_corpus + (args.initial_corpus * args.investment_return) \div 100)
        * args.withdrawal_rate) \div 100 > args.annual_expenses

(* the amount a category starts the scaling with: the override when the    *)
(* caller gave one, else the profile's amount                              *)
OverrideOr(category, fallback) ==
  IF category \in DOMAIN args.custom_expenses
  THEN args.custom_expenses[category]
  ELSE fallback

(* the caller's overrides without the keys that are no category *)
KnownOverrides ==
  [c \in (DOMAIN args.custom_expenses) \cap Categories |-> args.custom_expenses[c]]

(* C12: rent is zeroed for own_house, then overrides replace, then the      *)
(* household scaling applies, then education_child is times the children.  *)
(* So a rent override is the rent even with own_house; rent is 0 with      *)
(* own_house and no rent override; overridden groceries, utilities and     *)
(* miscellaneous are still scaled for family_size > 3; an overridden       *)
(* education_child is still times children_count; keys outside the eight   *)
(* categories add no category and leave the total as it is without them.   *)
(* (breakdown and total in thirtieths)                                     *)
AdjustmentOrder ==
  ExpensesReturnedOk
    => LET profile == InitialCityCosts[args.city_tier]
           b == result.breakdown
           n == args.family_size
       IN /\ b.rent = 30 * OverrideOr("rent", IF args.own_house THEN 0 ELSE profile.rent)
          /\ IF n > 3
             THEN /\ 3 * b.groceries = 30 * n * OverrideOr("groceries", profile.groceries)
                  /\ 30 * b.utilities = 30 * 8 * n * OverrideOr("utilities", profile.utilities)
                  /\ 30 * b.miscellaneous =
                       30 * 9 * n * OverrideOr("miscellaneous", profile.miscellaneous)
             ELSE /\ b.groceries = 30 * OverrideOr("groceries", profile.groceries)
                  /\ b.utilities = 30 * OverrideOr("utilities", profile.utilities)
                  /\ b.miscellaneous = 30 * OverrideOr("miscellaneous", profile.miscellaneous)
          /\ b.education_child =
               30 * args.children_count * OverrideOr("education_child", profile.education_child)
          /\ DOMAIN b = Categories
          /\ result.total =
               MonthlyExpenses(InitialCityCosts,
                               [args EXCEPT !.custom_expenses = KnownOverrides]).total

(* an owner's call with a rent override has returned the override as rent *)
OwnerRentOverrideReturned ==
  /\ ExpensesReturnedOk
  /\ args.own_house
  /\ "rent" \in DOMAIN args.custom_expenses
  /\ args.custom_expenses.rent > 0
  /\ result.breakdown.rent = 30 * args.custom_expenses.rent

InMain == op = "main"

(* C13: whatever current age and retirement age are selected, a run of     *)
(* main either rejects the input or gives project_future_expenses, the     *)
(* growth of the existing savings and calculate_sip_required a horizon     *)
(* that is >= 0.                                                           *)
NegativeHorizonNeverReachesEngine ==
  (InMain /\ pc = "returned")
    => \/ result.kind = "rejected"
       \/ /\ result.kind = "ok"
          /\ result.project_horizon >= 0
          /\ result.growth_horizon >= 0
          /\ result.sip_horizon >= 0

====
